---------------------------- MODULE Spec2Model ----------------------------
(***************************************************************************)
(* A model of the r6502 assembler's parser (src/src/asm_parser.rs): the    *)
(* token cursor, the arithmetic grammar and its checked evaluator, the     *)
(* variable table, the directive sequences and the addressing-mode         *)
(* resolver of state_instr, driven by the statement loop of parse().       *)
(* The resolver/emitter phase (compiler.rs, opcodes.rs) is modelled from    *)
(* the design document and confronted with the outputs the repository's    *)
(* tests assert.                                                           *)
(* A parser function is an operator over the token sequence and the cursor *)
(* that returns a record with the cursor it leaves; a result that is used  *)
(* more than once is bound once, as the parameter of a local operator.     *)
(***************************************************************************)
EXTENDS Integers, Sequences, FiniteSets, TLC

VARIABLES
    tokens,     \* AsmParser.tokens: the immutable token sequence
    cursor,     \* AsmParser.cursor (0-based index into tokens)
    variables,  \* AsmParser.variables: name -> MathExpr
    prog,       \* parse()'s local `prog`: the statements pushed so far
    seq,        \* consume_sequence()'s local `seq`
    seqSize,    \* consume_sequence()'s parameter `size` (0: not in a sequence)
    pc,         \* "loop" | "seq" | "done" | "compiled"
    result,     \* what parse() returned: none | ok | err(msg) | panic(msg)
    config,     \* CompilerConfig: allow_illegal, allow_list
    output      \* what the compiler produced from prog: none | ok(bytes) | err

vars == <<tokens, cursor, variables, prog, seq, seqSize, pc, result, config, output>>

-----------------------------------------------------------------------------
(* Integer widths *)

U16Max == 65535

Min(a, b) == IF a < b THEN a ELSE b
Max(a, b) == IF a > b THEN a ELSE b

-----------------------------------------------------------------------------
(* Tokens (crate::asm_lexer::Token as the parser uses it).  A token keeps   *)
(* its kind, a name (LITERAL, DIRECTIVE) and a text: the digits of a        *)
(* numeric literal as digit values, the characters of a CHAR or STR as      *)
(* code points.                                                             *)

Tk(k) == [k |-> k, s |-> "", d |-> <<>>]
LITERAL(s) == [k |-> "LITERAL", s |-> s, d |-> <<>>]
DIRECTIVE(s) == [k |-> "DIRECTIVE", s |-> s, d |-> <<>>]
HEX(d) == [k |-> "HEX", s |-> "", d |-> d]
DEC(d) == [k |-> "DEC", s |-> "", d |-> d]
BIN(d) == [k |-> "BIN", s |-> "", d |-> d]
CHAR(d) == [k |-> "CHAR", s |-> "", d |-> d]
STR(d) == [k |-> "STR", s |-> "", d |-> d]
EOF == Tk("EOF")
NEWLINE == Tk("NEWLINE")
COMMENT == Tk("COMMENT")
EQUAL == Tk("EQUAL")
COLON == Tk("COLON")
COMMA == Tk("COMMA")
HASH == Tk("HASH")
PARENTOPEN == Tk("PARENTOPEN")
PARENTCLOSE == Tk("PARENTCLOSE")
PLUS == Tk("PLUS")
MINUS == Tk("MINUS")
MULT == Tk("MULT")
DIV == Tk("DIV")

-----------------------------------------------------------------------------
(* Results.  Every fallible function returns a record whose st is "ok",     *)
(* "err" (a Result::Err value) or "panic" (an unwrap() that aborts).        *)

ErrMsg(kind, name, pos) == [kind |-> kind, name |-> name, pos |-> pos]
NoMsg == ErrMsg("", "", 0)

NumericValue(value, size) == [value |-> value, size |-> size]

\* u16::from_str_radix / usize::from_str_radix on a digit text, with the
\* overflow check of every step; -1 stands for Err (empty text, a digit that
\* is not one of the radix, or a value above `limit`).
RECURSIVE RadixAcc(_, _, _, _)
RadixAcc(d, radix, acc, limit) ==
    IF d = <<>> THEN acc
    ELSE IF Head(d) < 0 \/ Head(d) >= radix THEN -1
    ELSE LET with(a) == IF a > limit THEN -1 ELSE RadixAcc(Tail(d), radix, a, limit)
         IN  with(acc * radix + Head(d))

from_str_radix(d, radix) ==
    IF d = <<>> THEN -1 ELSE RadixAcc(d, radix, 0, U16Max)

canonicalize_number(n) ==
    LET Ok(v, size) == [st |-> "ok", num |-> NumericValue(v, size), msg |-> NoMsg]
        Panic == [st |-> "panic", num |-> NumericValue(0, 0), msg |-> ErrMsg("unwrap", "", 0)]
    IN  CASE n.k = "BIN" ->
               LET v == from_str_radix(n.d, 2)
               IN  IF v < 0 THEN Panic
                   ELSE IF Len(n.d) > 8 THEN Ok(v, 16) ELSE Ok(v, 8)
          [] n.k = "DEC" ->
               LET v == from_str_radix(n.d, 10)
               IN  IF v < 0 THEN Panic
                   ELSE IF v > 255 \/ Len(n.d) > 3 THEN Ok(v, 16) ELSE Ok(v, 8)
          [] n.k = "HEX" ->
               LET v == from_str_radix(n.d, 16)
               IN  IF v < 0 THEN Panic
                   ELSE IF Len(n.d) > 2 THEN Ok(v, 16) ELSE Ok(v, 8)
          [] n.k = "CHAR" ->
               IF n.d = <<>> THEN Panic
               ELSE Ok(Head(n.d) % (U16Max + 1), 8)
          [] OTHER ->
               [st |-> "err", num |-> NumericValue(0, 0),
                msg |-> ErrMsg("not a number", n.k, 0)]

-----------------------------------------------------------------------------
(* The cursor *)

curr(toks, c) == IF c < Len(toks) THEN toks[c + 1] ELSE EOF
peek_next(toks, c) == IF c + 1 < Len(toks) THEN toks[c + 2] ELSE EOF
is_eof(toks, c) == curr(toks, c) = EOF
is_endline(toks, c) == curr(toks, c) = NEWLINE
is_comment(toks, c) == curr(toks, c).k = "COMMENT"
\* next() without its bound: one step forward, whatever the length.
next_unclamped(toks, c) == c + 1
next(toks, c) == Min(Len(toks), c + 1)

\* consume(token): Ok and one step forward, or Err with the cursor in place.
consume(toks, c, token) ==
    IF curr(toks, c) = token
    THEN [st |-> "ok", cur |-> next(toks, c), msg |-> NoMsg]
    ELSE [st |-> "err", cur |-> c, msg |-> ErrMsg("expected", token.k, 0)]

consume_literal_and_lift(toks, c) ==
    IF curr(toks, c).k = "LITERAL"
    THEN [st |-> "ok", cur |-> next(toks, c), s |-> curr(toks, c).s, msg |-> NoMsg]
    ELSE [st |-> "err", cur |-> c, s |-> "", msg |-> ErrMsg("expected", "LITERAL", 0)]

consume_string_and_lift(toks, c) ==
    IF curr(toks, c).k = "STR"
    THEN [st |-> "ok", cur |-> next(toks, c), d |-> curr(toks, c).d, msg |-> NoMsg]
    ELSE [st |-> "err", cur |-> c, d |-> <<>>, msg |-> ErrMsg("expected", "STR", 0)]

consume_literal(toks, c, s) ==
    IF curr(toks, c).k = "LITERAL" /\ curr(toks, c).s = s
    THEN [st |-> "ok", cur |-> next(toks, c), msg |-> NoMsg]
    ELSE [st |-> "err", cur |-> c, msg |-> ErrMsg("expected literal", s, 0)]

-----------------------------------------------------------------------------
(* MathExpr and the arithmetic grammar                                      *)
(*   expr ::= term PLUS expr | term MINUS expr | term                       *)
(*   term ::= factor MULT term | factor DIV term | factor                   *)
(*   factor ::= PARENTOPEN expr PARENTCLOSE | unary                         *)
(*   unary ::= literal | hex | dec | bin | char                             *)
(* A parse result keeps the cursor it stopped at, also when it failed: the  *)
(* parser never moves the cursor back.                                      *)

NUM(n) == [t |-> "NUM", num |-> n]
PLACEHOLDER(s) == [t |-> "PLACEHOLDER", name |-> s]
MBIN(op, l, r) == [t |-> "BIN", op |-> op, l |-> l, r |-> r]

POk(e, c) == [st |-> "ok", cur |-> c, expr |-> e, msg |-> NoMsg]
PFail(st, c, msg) == [st |-> st, cur |-> c, expr |-> NUM(NumericValue(0, 0)), msg |-> msg]

consume_math_unary(toks, c) ==
    LET with(n) ==
            CASE n.st = "ok" -> POk(NUM(n.num), next(toks, c))
              [] n.st = "panic" -> PFail("panic", c, n.msg)
              [] OTHER ->
                   IF curr(toks, c).k = "LITERAL"
                   THEN POk(PLACEHOLDER(curr(toks, c).s), next(toks, c))
                   ELSE PFail("err", c, n.msg)
    IN  with(canonicalize_number(curr(toks, c)))

RECURSIVE consume_math_expr(_, _)
RECURSIVE consume_math_term(_, _)
RECURSIVE consume_math_factor(_, _)

\* self.consume(PARENTCLOSE) after the parenthesized expression e.
close_paren(e, cl) ==
    IF cl.st # "ok" THEN PFail("err", cl.cur, cl.msg) ELSE POk(e.expr, cl.cur)

\* MathExpr::BIN(Box::new(e), op, Box::new(right))
binary(op, e, right) ==
    IF right.st # "ok" THEN right ELSE POk(MBIN(op, e.expr, right.expr), right.cur)

consume_math_factor(toks, c) ==
    LET with(e) ==
            IF e.st # "ok" THEN e
            ELSE close_paren(e, consume(toks, e.cur, PARENTCLOSE))
    IN  IF curr(toks, c) = PARENTOPEN
        THEN with(consume_math_expr(toks, next(toks, c)))
        ELSE consume_math_unary(toks, c)

consume_math_term(toks, c) ==
    LET with(e) ==
            IF e.st # "ok" THEN e
            ELSE IF curr(toks, e.cur) \in {MULT, DIV}
            THEN binary(curr(toks, e.cur).k, e, consume_math_term(toks, next(toks, e.cur)))
            ELSE e
    IN  with(consume_math_factor(toks, c))

consume_math_expr(toks, c) ==
    LET with(e) ==
            IF e.st # "ok" THEN e
            ELSE IF curr(toks, e.cur) \in {PLUS, MINUS}
            THEN binary(curr(toks, e.cur).k, e, consume_math_expr(toks, next(toks, e.cur)))
            ELSE e
    IN  with(consume_math_term(toks, c))

-----------------------------------------------------------------------------
(* eval_math: checked 16-bit arithmetic over the variable table *)

VOk(n) == [st |-> "ok", num |-> n, msg |-> NoMsg]
VErr(msg) == [st |-> "err", num |-> NumericValue(0, 0), msg |-> msg]

\* The operations as wrapping_add, wrapping_mul, wrapping_sub: modulo 2^16.
checked_op_wrapping(op, l, r) ==
    CASE op = "PLUS" -> (l + r) % (U16Max + 1)
      [] op = "MULT" -> ((l % 256) * r + 256 * (((l \div 256) * r) % 256)) % (U16Max + 1)
      [] op = "MINUS" -> (l - r + U16Max + 1) % (U16Max + 1)
      [] op = "DIV" -> IF r = 0 THEN -1 ELSE l \div r
      [] OTHER -> -1

\* One binary operation on u16 values: checked_add, checked_mul, checked_sub,
\* checked_div; -1 where the checked operation is None.
checked_op(op, l, r) ==
    CASE op = "PLUS" -> IF l + r > U16Max THEN -1 ELSE l + r
      [] op = "MULT" -> IF l > 0 /\ r > U16Max \div l THEN -1 ELSE l * r
      [] op = "MINUS" -> IF l - r < 0 THEN -1 ELSE l - r
      [] op = "DIV" -> IF r = 0 THEN -1 ELSE l \div r
      [] OTHER -> -1

op_error(op) ==
    CASE op = "PLUS" -> "add overflow"
      [] op = "MULT" -> "multiplication overflow"
      [] op = "MINUS" -> "substraction overflow"
      [] op = "DIV" -> "divide by zero"
      [] OTHER -> "binary operator not implemented"

\* .ok_or_else(...) on the checked operation, and the wider of the two sizes.
checked_value(op, value, size) ==
    IF value < 0 THEN VErr(ErrMsg(op_error(op), "", 0)) ELSE VOk(NumericValue(value, size))

\* let left = self.eval_math(left)?; let right = self.eval_math(right)?;
apply_op(op, left, right) ==
    IF left.st # "ok" THEN left
    ELSE IF right.st # "ok" THEN right
    ELSE checked_value(op, checked_op(op, left.num.value, right.num.value),
                       Max(left.num.size, right.num.size))

RECURSIVE eval_math(_, _)
eval_math(table, expr) ==
    CASE expr.t = "BIN" ->
           apply_op(expr.op, eval_math(table, expr.l), eval_math(table, expr.r))
      [] expr.t = "NUM" -> VOk(expr.num)
      [] OTHER ->
           IF expr.name \in DOMAIN table
           THEN eval_math(table, table[expr.name])
           ELSE VErr(ErrMsg("undefined variable", expr.name, 0))

\* The validator that looks at the expression itself only: a bound
\* placeholder is accepted without a look at its stored definition.
RECURSIVE validate_factors_direct(_, _, _)
validate_factors_direct(table, expr, assignee) ==
    CASE expr.t = "NUM" -> [st |-> "ok", msg |-> NoMsg]
      [] expr.t = "BIN" ->
           LET with(left) ==
                   IF left.st # "ok" THEN left
                   ELSE validate_factors_direct(table, expr.r, assignee)
           IN  with(validate_factors_direct(table, expr.l, assignee))
      [] OTHER ->
           IF expr.name = assignee
           THEN [st |-> "err", msg |-> ErrMsg("recursive definition", expr.name, 0)]
           ELSE IF expr.name \in DOMAIN table
           THEN [st |-> "ok", msg |-> NoMsg]
           ELSE [st |-> "err", msg |-> ErrMsg("undefined variable", expr.name, 0)]

\* validate_factors: Ok(true), or Err when the assignee is met or a name is
\* unbound; a bound placeholder is followed into its stored definition with
\* the same assignee.
RECURSIVE validate_factors(_, _, _)
validate_factors(table, expr, assignee) ==
    CASE expr.t = "NUM" -> [st |-> "ok", msg |-> NoMsg]
      [] expr.t = "BIN" ->
           LET with(left) ==
                   IF left.st # "ok" THEN left
                   ELSE validate_factors(table, expr.r, assignee)
           IN  with(validate_factors(table, expr.l, assignee))
      [] OTHER ->
           IF expr.name = assignee
           THEN [st |-> "err", msg |-> ErrMsg("recursive definition", expr.name, 0)]
           ELSE IF expr.name \in DOMAIN table
           THEN validate_factors(table, table[expr.name], assignee)
           ELSE [st |-> "err", msg |-> ErrMsg("undefined variable", expr.name, 0)]

\* try_expand_math: the expression's value, or, when the expression does not
\* parse, the numeric literal under the cursor where the parse stopped.
try_expand_math(toks, c, table) ==
    LET value(e, v) == [st |-> v.st, cur |-> e.cur, num |-> v.num, msg |-> v.msg]
        literal(e, n) ==
            IF n.st = "ok"
            THEN [st |-> "ok", cur |-> next(toks, e.cur), num |-> n.num, msg |-> NoMsg]
            ELSE [st |-> n.st, cur |-> e.cur, num |-> NumericValue(0, 0), msg |-> n.msg]
        with(e) ==
            CASE e.st = "ok" -> value(e, eval_math(table, e.expr))
              [] e.st = "panic" ->
                   [st |-> "panic", cur |-> e.cur, num |-> NumericValue(0, 0), msg |-> e.msg]
              [] OTHER -> literal(e, canonicalize_number(curr(toks, e.cur)))
    IN  with(consume_math_expr(toks, c))

-----------------------------------------------------------------------------
(* Statements (Expr), operands and directives *)

NONE == [o |-> "NONE", name |-> "", num |-> NumericValue(0, 0)]
OLABEL(s) == [o |-> "LABEL", name |-> s, num |-> NumericValue(0, 0)]
VALUE(n) == [o |-> "VALUE", name |-> "", num |-> n]

INSTR(instr, mode, op) == [e |-> "INSTR", instr |-> instr, mode |-> mode, op |-> op]
ASSIGN(s, expr) == [e |-> "ASSIGN", name |-> s, expr |-> expr]
LABEL(s) == [e |-> "LABEL", name |-> s]
BYTE(sq) == [e |-> "DIRECTIVE", d |-> "BYTE", seq |-> sq, name |-> "", text |-> <<>>]
DWORD(sq) == [e |-> "DIRECTIVE", d |-> "DWORD", seq |-> sq, name |-> "", text |-> <<>>]
SEGMENT(d) == [e |-> "DIRECTIVE", d |-> "SEGMENT", seq |-> <<>>, name |-> "", text |-> d]
PROC(s) == [e |-> "DIRECTIVE", d |-> "PROC", seq |-> <<>>, name |-> s, text |-> <<>>]
ENDPROC == [e |-> "DIRECTIVE", d |-> "ENDPROC", seq |-> <<>>, name |-> "", text |-> <<>>]
RESERVE(d) == [e |-> "DIRECTIVE", d |-> "RESERVE", seq |-> <<>>, name |-> "", text |-> d]

\* The mnemonic table INSTR of crate::opcodes: the documented 6502 mnemonics
\* and the unofficial LAX the tests compile.
Mnemonics ==
    {"ADC", "AND", "ASL", "BCC", "BCS", "BEQ", "BIT", "BMI", "BNE", "BPL", "BRK",
     "BVC", "BVS", "CLC", "CLD", "CLI", "CLV", "CMP", "CPX", "CPY", "DEC", "DEX",
     "DEY", "EOR", "INC", "INX", "INY", "JMP", "JSR", "LDA", "LDX", "LDY", "LSR",
     "NOP", "ORA", "PHA", "PHP", "PLA", "PLP", "ROL", "ROR", "RTI", "RTS", "SBC",
     "SEC", "SED", "SEI", "STA", "STX", "STY", "TAX", "TAY", "TSX", "TXA", "TXS",
     "TYA", "LAX"}

\* String::to_uppercase on the identifiers the model's inputs use.
to_uppercase(s) ==
    CASE s = "lda" -> "LDA"
      [] s = "bne" -> "BNE"
      [] s = "x" -> "X"
      [] s = "y" -> "Y"
      [] s = "v" -> "V"
      [] s = "w" -> "W"
      [] s = "loop" -> "LOOP"
      [] s = "ignored" -> "IGNORED"
      [] s = "also_ignored" -> "ALSO_IGNORED"
      [] OTHER -> s

get_instr(s) ==
    IF to_uppercase(s) \in Mnemonics
    THEN [st |-> "ok", instr |-> to_uppercase(s), msg |-> NoMsg]
    ELSE [st |-> "err", instr |-> "", msg |-> ErrMsg("not a valid instruction", s, 0)]

is_branching(i) == i \in {"BPL", "BMI", "BVC", "BVS", "BCC", "BCS", "BNE", "BEQ"}

IOk(c, stmt) == [st |-> "ok", cur |-> c, stmt |-> stmt, msg |-> NoMsg]
IFail(st, c, msg) == [st |-> st, cur |-> c, stmt |-> LABEL(""), msg |-> msg]

\* The optional ",x" / ",y" after a zero-page or absolute operand.
index_suffix(toks, c, instr, number, plain, withx, withy) ==
    LET with(x, y) ==
            IF x.st = "ok" THEN IOk(x.cur, INSTR(instr, withx, VALUE(number)))
            ELSE IF y.st = "ok" THEN IOk(y.cur, INSTR(instr, withy, VALUE(number)))
            ELSE IFail("err", y.cur, y.msg)
    IN  IF curr(toks, c) = COMMA
        THEN with(consume_literal(toks, next(toks, c), "x"),
                  consume_literal(toks, next(toks, c), "y"))
        ELSE IOk(c, INSTR(instr, plain, VALUE(number)))

\* self.consume(token)? in front of `rest`.
expect(r, rest) == IF r.st # "ok" THEN IFail("err", r.cur, r.msg) ELSE rest

\* "(" expr ")" with a 16-bit value.
ind(toks, instr, n) ==
    LET with(cl) == expect(cl, IOk(cl.cur, INSTR(instr, "IND", VALUE(n.num))))
    IN  with(consume(toks, n.cur, PARENTCLOSE))

\* "(" expr ",x)" with an 8-bit value.
indx(toks, instr, n) ==
    LET close(cl) == expect(cl, IOk(cl.cur, INSTR(instr, "INDX", VALUE(n.num))))
        with(x) == expect(x, close(consume(toks, x.cur, PARENTCLOSE)))
    IN  with(consume_literal(toks, next(toks, n.cur), "x"))

\* "(" expr "),y" with an 8-bit value.
indy(toks, instr, n) ==
    LET index(y) == expect(y, IOk(y.cur, INSTR(instr, "INDY", VALUE(n.num))))
        comma(cm) == expect(cm, index(consume_literal(toks, cm.cur, "y")))
        with(cl) == expect(cl, comma(consume(toks, cl.cur, COMMA)))
    IN  with(consume(toks, n.cur, PARENTCLOSE))

\* The parenthesized operand read as the plain one: "(" expr ")" stripped of
\* its parentheses and split by size like a direct operand.
indirect_operand_as_plain(toks, c, table, instr) ==
    LET closed(n, cl) ==
            expect(cl, IOk(cl.cur, INSTR(instr, IF n.num.size > 8 THEN "ABS" ELSE "ZP",
                                         VALUE(n.num))))
        with(n) ==
            IF n.st # "ok" THEN IFail(n.st, n.cur, n.msg)
            ELSE IF curr(toks, n.cur) = COMMA THEN indx(toks, instr, n)
            ELSE IF curr(toks, next(toks, n.cur)) = COMMA THEN indy(toks, instr, n)
            ELSE closed(n, consume(toks, n.cur, PARENTCLOSE))
    IN  with(try_expand_math(toks, next(toks, c), table))

\* The operand that opens with a parenthesis: ind, indx, indy.
indirect_operand(toks, c, table, instr) ==
    LET with(n) ==
            IF n.st # "ok" THEN IFail(n.st, n.cur, n.msg)
            ELSE IF n.num.size > 8 THEN ind(toks, instr, n)
            ELSE IF curr(toks, n.cur) = COMMA THEN indx(toks, instr, n)
            ELSE indy(toks, instr, n)
    IN  with(try_expand_math(toks, next(toks, c), table))

\* The operand of a branch: a numeric literal or a label, neither consumed.
branch_operand(toks, c, instr) ==
    LET with(n) ==
            CASE n.st = "ok" -> IOk(c, INSTR(instr, "REL", VALUE(n.num)))
              [] n.st = "panic" -> IFail("panic", c, n.msg)
              [] OTHER ->
                   IF curr(toks, c).k = "LITERAL"
                   THEN IOk(c, INSTR(instr, "REL", OLABEL(curr(toks, c).s)))
                   ELSE IFail("err", c, n.msg)
    IN  with(canonicalize_number(curr(toks, c)))

\* The immediate operand: '#' and a full arithmetic expression.
immediate_operand(toks, c, table, instr) ==
    LET value(e, v) ==
            IF v.st # "ok" THEN IFail("err", e.cur, v.msg)
            ELSE IOk(e.cur, INSTR(instr, "IMM", VALUE(v.num)))
        with(e) ==
            IF e.st # "ok" THEN IFail(e.st, e.cur, e.msg)
            ELSE value(e, eval_math(table, e.expr))
    IN  with(consume_math_expr(toks, next(toks, c)))

\* The split with the comparison off by one: every size is absolute.
direct_operand_ge(toks, c, table, instr) ==
    LET with(n) ==
            IF n.st # "ok" THEN IFail(n.st, n.cur, n.msg)
            ELSE IF n.num.size >= 8
            THEN index_suffix(toks, n.cur, instr, n.num, "ABS", "ABSX", "ABSY")
            ELSE index_suffix(toks, n.cur, instr, n.num, "ZP", "ZPX", "ZPY")
    IN  with(try_expand_math(toks, c, table))

\* The operand that is neither: abs and zp, split by the value's size.
direct_operand(toks, c, table, instr) ==
    LET with(n) ==
            IF n.st # "ok" THEN IFail(n.st, n.cur, n.msg)
            ELSE IF n.num.size > 8
            THEN index_suffix(toks, n.cur, instr, n.num, "ABS", "ABSX", "ABSY")
            ELSE index_suffix(toks, n.cur, instr, n.num, "ZP", "ZPX", "ZPY")
    IN  with(try_expand_math(toks, c, table))

state_instr(toks, c, table) ==
    LET with(i, c1) ==
            IF i.st # "ok" THEN IFail("err", c, i.msg)
            ELSE IF is_endline(toks, c1) \/ is_eof(toks, c1) \/ is_comment(toks, c1)
            THEN IOk(c1, INSTR(i.instr, "IMPL", NONE))
            ELSE IF is_branching(i.instr) THEN branch_operand(toks, c1, i.instr)
            ELSE IF curr(toks, c1) = HASH THEN immediate_operand(toks, c1, table, i.instr)
            ELSE IF curr(toks, c1) = PARENTOPEN THEN indirect_operand(toks, c1, table, i.instr)
            ELSE direct_operand(toks, c1, table, i.instr)
    IN  IF curr(toks, c).k # "LITERAL"
        THEN IFail("err", c, ErrMsg("not a literal", curr(toks, c).k, 0))
        ELSE with(get_instr(curr(toks, c).s), next(toks, c))

AOk(c, table, stmt) == [st |-> "ok", cur |-> c, msg |-> NoMsg, table |-> table, stmt |-> stmt]
AFail(st, c, msg, table) == [st |-> st, cur |-> c, msg |-> msg, table |-> table, stmt |-> LABEL("")]

\* self.variables.insert(symbol, number)
insert(table, symbol, number) ==
    [n \in DOMAIN table \cup {symbol} |-> IF n = symbol THEN number ELSE table[n]]

\* The assignment committed as parsed, without a call of validate_factors.
state_assign_unvalidated(toks, c, table) ==
    LET parsed(symbol, number) ==
            IF number.st # "ok" THEN AFail(number.st, number.cur, number.msg, table)
            ELSE AOk(number.cur, insert(table, symbol.s, number.expr),
                     ASSIGN(symbol.s, number.expr))
        equal(symbol, eq) ==
            IF eq.st # "ok" THEN AFail("err", eq.cur, eq.msg, table)
            ELSE parsed(symbol, consume_math_expr(toks, eq.cur))
        with(symbol) ==
            IF symbol.st # "ok" THEN AFail("err", symbol.cur, symbol.msg, table)
            ELSE equal(symbol, consume(toks, symbol.cur, EQUAL))
    IN  with(consume_literal_and_lift(toks, c))

state_assign(toks, c, table) ==
    LET validated(symbol, number, valid) ==
            IF valid.st # "ok" THEN AFail("err", number.cur, valid.msg, table)
            ELSE AOk(number.cur, insert(table, symbol.s, number.expr),
                     ASSIGN(symbol.s, number.expr))
        parsed(symbol, number) ==
            IF number.st # "ok" THEN AFail(number.st, number.cur, number.msg, table)
            ELSE validated(symbol, number, validate_factors(table, number.expr, symbol.s))
        equal(symbol, eq) ==
            IF eq.st # "ok" THEN AFail("err", eq.cur, eq.msg, table)
            ELSE parsed(symbol, consume_math_expr(toks, eq.cur))
        with(symbol) ==
            IF symbol.st # "ok" THEN AFail("err", symbol.cur, symbol.msg, table)
            ELSE equal(symbol, consume(toks, symbol.cur, EQUAL))
    IN  with(consume_literal_and_lift(toks, c))

state_label(toks, c) ==
    LET colon(name, cl) == expect(cl, IOk(cl.cur, LABEL(name.s)))
        with(name) == expect(name, colon(name, consume(toks, name.cur, COLON)))
    IN  with(consume_literal_and_lift(toks, c))

-----------------------------------------------------------------------------
(* consume_sequence: the operands of byte/db and dword/dw *)

\* str::len(): the UTF-8 length of a text given as code points.
utf8_len(ch) == IF ch < 128 THEN 1 ELSE IF ch < 2048 THEN 2 ELSE IF ch < 65536 THEN 3 ELSE 4

RECURSIVE str_len(_)
str_len(d) == IF d = <<>> THEN 0 ELSE utf8_len(Head(d)) + str_len(Tail(d))

\* `ch as u16`
as_u16(ch) == ch % (U16Max + 1)

\* a | b on 16-bit values
RECURSIVE bit_or(_, _)
bit_or(a, b) ==
    IF a = 0 THEN b
    ELSE IF b = 0 THEN a
    ELSE 2 * bit_or(a \div 2, b \div 2) + (IF a % 2 = 1 \/ b % 2 = 1 THEN 1 ELSE 0)

\* One 16-bit word of a string: (hi << 8) | lo
pack_word(hi, lo) == bit_or((as_u16(hi) * 256) % (U16Max + 1), as_u16(lo))

\* The chars of a string, two per 16-bit value; list[pos + 1] is out of
\* bounds when the chars run out first.
RECURSIVE pack_words(_)
pack_words(list) ==
    LET with(rest) ==
            IF rest.st # "ok" THEN rest
            ELSE [st |-> "ok",
                  seq |-> <<NumericValue(pack_word(list[1], list[2]), 16)>> \o rest.seq]
    IN  IF list = <<>> THEN [st |-> "ok", seq |-> <<>>]
        ELSE IF Len(list) = 1 THEN [st |-> "panic", seq |-> <<>>]
        ELSE with(pack_words(Tail(Tail(list))))

SOk(c, sq) == [st |-> "ok", cur |-> c, seq |-> sq, msg |-> NoMsg]
SFail(st, c, sq, msg) == [st |-> st, cur |-> c, seq |-> sq, msg |-> msg]

\* The optional comma that ends one round of the loop.
skip_comma(toks, c) == IF curr(toks, c) = COMMA THEN next(toks, c) ELSE c

\* The operand appended as evaluated, its size field untouched.
promote_unchanged(value, size) == value

\* The value of a non-string operand in a sequence of the given width.
promote(value, size) == NumericValue(value.value, Max(value.size, size))

\* One round of consume_sequence's loop.
consume_sequence_item(toks, c, table, sq, size) ==
    LET packed(words) ==
            IF words.st # "ok"
            THEN SFail("panic", c, sq, ErrMsg("index out of bounds", "", 0))
            ELSE SOk(skip_comma(toks, next(toks, c)), sq \o words.seq)
        string(s) ==
            IF size = 16
            THEN IF str_len(s) % 2 # 0
                 THEN SFail("err", c, sq, ErrMsg("odd string length", "", Len(s)))
                 ELSE packed(pack_words(s))
            ELSE SOk(skip_comma(toks, next(toks, c)),
                     sq \o [i \in 1..Len(s) |-> NumericValue(as_u16(s[i]), 8)])
        evaluated(expr, value) ==
            IF value.st # "ok" THEN SFail("err", expr.cur, sq, value.msg)
            ELSE IF value.num.size > size
            THEN SFail("err", expr.cur, sq, ErrMsg("value too wide", "", Len(sq)))
            ELSE SOk(skip_comma(toks, expr.cur), Append(sq, promote(value.num, size)))
        with(expr) ==
            IF expr.st # "ok" THEN SFail(expr.st, expr.cur, sq, expr.msg)
            ELSE evaluated(expr, eval_math(table, expr.expr))
    IN  IF curr(toks, c).k = "STR"
        THEN string(curr(toks, c).d)
        ELSE with(consume_math_expr(toks, c))

-----------------------------------------------------------------------------
(* usize::from_str_radix(n, 10) of `.res`: the digits without their leading *)
(* zeros, or a failure when the text is empty or above usize::MAX (64-bit). *)

UsizeMaxDigits == <<1, 8, 4, 4, 6, 7, 4, 4, 0, 7, 3, 7, 0, 9, 5, 5, 1, 6, 1, 5>>

RECURSIVE strip_zeros(_)
strip_zeros(d) == IF Len(d) > 1 /\ Head(d) = 0 THEN strip_zeros(Tail(d)) ELSE d

RECURSIVE digits_greater(_, _)
digits_greater(a, b) ==
    IF a = <<>> THEN FALSE
    ELSE IF Head(a) # Head(b) THEN Head(a) > Head(b)
    ELSE digits_greater(Tail(a), Tail(b))

usize_from_str_radix(d) ==
    LET s == strip_zeros(d)
    IN  IF d = <<>> \/ \E i \in 1..Len(d) : d[i] < 0 \/ d[i] > 9 THEN [st |-> "panic", digits |-> <<>>]
        ELSE IF Len(s) > Len(UsizeMaxDigits)
                \/ (Len(s) = Len(UsizeMaxDigits) /\ digits_greater(s, UsizeMaxDigits))
        THEN [st |-> "panic", digits |-> <<>>]
        ELSE [st |-> "ok", digits |-> s]

-----------------------------------------------------------------------------
(* The resolver and emitter (crate::compiler, crate::opcodes), after the    *)
(* design document: the opcode table, pass 1 (label addresses), pass 2      *)
(* (substitution and emission) and the gate on unofficial opcodes.          *)

Entry(opcode, len, official) == [found |-> TRUE, opcode |-> opcode, len |-> len, official |-> official]
NoEntry == [found |-> FALSE, opcode |-> 0, len |-> 0, official |-> TRUE]

\* (mnemonic, mode) -> opcode byte, operand byte count, official?
OpcodeTable(instr, mode) ==
    CASE instr = "ASL" /\ mode = "ZP" -> Entry(6, 1, TRUE)
      [] instr = "ASL" /\ mode = "IMPL" -> Entry(10, 0, TRUE)
      [] instr = "ASL" /\ mode = "ABS" -> Entry(14, 2, TRUE)
      [] instr = "ASL" /\ mode = "ZPX" -> Entry(22, 1, TRUE)
      [] instr = "ASL" /\ mode = "ABSX" -> Entry(30, 2, TRUE)
      [] instr = "LDA" /\ mode = "IMM" -> Entry(169, 1, TRUE)
      [] instr = "LDA" /\ mode = "ZP" -> Entry(165, 1, TRUE)
      [] instr = "LDA" /\ mode = "ZPX" -> Entry(181, 1, TRUE)
      [] instr = "LDA" /\ mode = "ABS" -> Entry(173, 2, TRUE)
      [] instr = "LDA" /\ mode = "ABSX" -> Entry(189, 2, TRUE)
      [] instr = "LDA" /\ mode = "ABSY" -> Entry(185, 2, TRUE)
      [] instr = "LDA" /\ mode = "INDX" -> Entry(161, 1, TRUE)
      [] instr = "LDA" /\ mode = "INDY" -> Entry(177, 1, TRUE)
      [] instr = "JMP" /\ mode = "ABS" -> Entry(76, 2, TRUE)
      [] instr = "JMP" /\ mode = "IND" -> Entry(108, 2, TRUE)
      [] instr = "NOP" /\ mode = "IMPL" -> Entry(234, 0, TRUE)
      [] instr = "LAX" /\ mode = "IMM" -> Entry(171, 1, FALSE)
      [] is_branching(instr) /\ mode = "REL" ->
           Entry(CASE instr = "BPL" -> 16 [] instr = "BMI" -> 48 [] instr = "BVC" -> 80
                   [] instr = "BVS" -> 112 [] instr = "BCC" -> 144 [] instr = "BCS" -> 176
                   [] instr = "BNE" -> 208 [] OTHER -> 240, 1, TRUE)
      [] OTHER -> NoEntry

\* The byte length a statement emits.
StmtLen(stmt) ==
    CASE stmt.e = "INSTR" -> 1 + OpcodeTable(stmt.instr, stmt.mode).len
      [] stmt.e = "DIRECTIVE" /\ stmt.d = "BYTE" -> Len(stmt.seq)
      [] stmt.e = "DIRECTIVE" /\ stmt.d = "DWORD" -> 2 * Len(stmt.seq)
      [] stmt.e = "DIRECTIVE" /\ stmt.d = "RESERVE" -> Max(0, RadixAcc(stmt.text, 10, 0, U16Max))
      [] OTHER -> 0

\* Pass 1: the address of the i-th statement.
RECURSIVE AddressOf(_, _)
AddressOf(p, i) == IF i <= 1 THEN 0 ELSE AddressOf(p, i - 1) + StmtLen(p[i - 1])

\* Pass 1: the label table (a later declaration of a name overwrites).
LabelDefined(p, name) == \E i \in 1..Len(p) : p[i].e = "LABEL" /\ p[i].name = name
LabelAddress(p, name) ==
    LET last == CHOOSE i \in 1..Len(p) :
                    /\ p[i].e = "LABEL" /\ p[i].name = name
                    /\ \A j \in (i + 1)..Len(p) : ~(p[j].e = "LABEL" /\ p[j].name = name)
    IN  AddressOf(p, last)

\* The relative offset of a branch at `address`: target - (address + length),
\* a signed 8-bit value given as its byte; -1 outside [-128, 127].
RelativeOffset(target, address, length) ==
    LET off == target - (address + length)
    IN  IF off < -128 \/ off > 127 THEN -1 ELSE (off + 256) % 256

LittleEndian(value, len) ==
    CASE len = 0 -> <<>>
      [] len = 1 -> <<value % 256>>
      [] OTHER -> <<value % 256, (value \div 256) % 256>>

\* An opcode may be emitted when it is official, or when illegal opcodes are
\* enabled and the byte is on the allow list.
OpcodeAllowed(entry, cfg) ==
    entry.official \/ (cfg.allow_illegal /\ entry.opcode \in cfg.allow_list)

EOk(bytes) == [st |-> "ok", bytes |-> bytes, msg |-> NoMsg]
EErr(msg) == [st |-> "err", bytes |-> <<>>, msg |-> msg]

\* Pass 2 for one statement.
EmitStmt(p, i, cfg) ==
    LET stmt == p[i]
        entry == OpcodeTable(stmt.instr, stmt.mode)
    IN  CASE stmt.e = "INSTR" ->
               IF ~entry.found THEN EErr(ErrMsg("instruction does not exist", stmt.instr, 0))
               ELSE IF ~OpcodeAllowed(entry, cfg)
               THEN EErr(ErrMsg("unofficial opcode not allowed", stmt.instr, entry.opcode))
               ELSE IF stmt.op.o = "VALUE"
               THEN EOk(<<entry.opcode>> \o LittleEndian(stmt.op.num.value, entry.len))
               ELSE IF stmt.op.o = "NONE" THEN EOk(<<entry.opcode>>)
               ELSE IF ~LabelDefined(p, stmt.op.name)
               THEN EErr(ErrMsg("undefined label", stmt.op.name, 0))
               ELSE IF stmt.mode = "REL"
               THEN LET off == RelativeOffset(LabelAddress(p, stmt.op.name),
                                              AddressOf(p, i), 1 + entry.len)
                    IN  IF off < 0 THEN EErr(ErrMsg("branch out of range", stmt.op.name, 0))
                        ELSE EOk(<<entry.opcode, off>>)
               ELSE EOk(<<entry.opcode>> \o LittleEndian(LabelAddress(p, stmt.op.name), entry.len))
          [] stmt.e = "DIRECTIVE" /\ stmt.d = "BYTE" ->
               EOk([k \in 1..Len(stmt.seq) |-> stmt.seq[k].value % 256])
          [] stmt.e = "DIRECTIVE" /\ stmt.d = "DWORD" ->
               EOk([k \in 1..(2 * Len(stmt.seq)) |->
                      IF k % 2 = 1 THEN stmt.seq[(k + 1) \div 2].value % 256
                      ELSE (stmt.seq[k \div 2].value \div 256) % 256])
          [] stmt.e = "DIRECTIVE" /\ stmt.d = "RESERVE" ->
               EOk([k \in 1..StmtLen(stmt) |-> 0])
          [] OTHER -> EOk(<<>>)

\* Pass 2: the image, or the first error.
RECURSIVE EmitFrom(_, _, _)
EmitFrom(p, i, cfg) ==
    IF i > Len(p) THEN EOk(<<>>)
    ELSE LET with(one, rest) ==
                 IF one.st # "ok" THEN one
                 ELSE IF rest.st # "ok" THEN rest
                 ELSE EOk(one.bytes \o rest.bytes)
         IN  with(EmitStmt(p, i, cfg), EmitFrom(p, i + 1, cfg))

to_byte_code(p, cfg) == EmitFrom(p, 1, cfg)

-----------------------------------------------------------------------------
(* parse(): the statement loop, one action per kind of round.               *)

Returned(st, msg) == [st |-> st, msg |-> msg]

\* parse() returns Err (or aborts) with the cursor where it stopped.
Fail(st, c, msg) ==
    /\ cursor' = c
    /\ pc' = "done"
    /\ result' = Returned(st, msg)
    /\ UNCHANGED <<tokens, variables, prog, seq, seqSize, config, output>>

AtStatement ==
    /\ pc = "loop"
    /\ ~is_eof(tokens, cursor)
    /\ ~(is_endline(tokens, cursor) \/ is_comment(tokens, cursor))

AtOther ==
    /\ AtStatement
    /\ peek_next(tokens, cursor) \notin {EQUAL, COLON}

\* One statement pushed, the cursor moved.
Push(stmt, c) ==
    /\ prog' = Append(prog, stmt)
    /\ cursor' = c
    /\ UNCHANGED <<tokens, variables, seq, seqSize, pc, result, config, output>>

\* if self.is_eof() { break } ... Ok(prog)
Finish ==
    /\ pc = "loop"
    /\ is_eof(tokens, cursor)
    /\ pc' = "done"
    /\ result' = Returned("ok", NoMsg)
    /\ UNCHANGED <<tokens, cursor, variables, prog, seq, seqSize, config, output>>

\* if self.is_endline() || self.is_comment() { self.next(); continue }
SkipBlank ==
    /\ pc = "loop"
    /\ ~is_eof(tokens, cursor)
    /\ is_endline(tokens, cursor) \/ is_comment(tokens, cursor)
    /\ cursor' = next(tokens, cursor)
    /\ UNCHANGED <<tokens, variables, prog, seq, seqSize, pc, result, config, output>>

\* if *self.peek_next() == Token::EQUAL
StmtAssign ==
    /\ AtStatement
    /\ peek_next(tokens, cursor) = EQUAL
    /\ IF curr(tokens, cursor).k # "LITERAL"
       THEN Fail("err", cursor, ErrMsg("assign expects a literal", "", 0))
       ELSE \E r \in {state_assign(tokens, cursor, variables)} :
                IF r.st # "ok" THEN Fail(r.st, r.cur, r.msg)
                ELSE /\ prog' = Append(prog, r.stmt)
                     /\ variables' = r.table
                     /\ cursor' = r.cur
                     /\ UNCHANGED <<tokens, seq, seqSize, pc, result, config, output>>

\* if *self.peek_next() == Token::COLON
StmtLabel ==
    /\ AtStatement
    /\ peek_next(tokens, cursor) # EQUAL
    /\ peek_next(tokens, cursor) = COLON
    /\ IF curr(tokens, cursor).k # "LITERAL"
       THEN Fail("err", cursor, ErrMsg("label expects a literal", "", 0))
       ELSE \E r \in {state_label(tokens, cursor)} :
                IF r.st # "ok" THEN Fail(r.st, r.cur, r.msg) ELSE Push(r.stmt, r.cur)

\* Token::DIRECTIVE(name): byte and dword enter consume_sequence.
StmtDirective ==
    /\ AtOther
    /\ curr(tokens, cursor).k = "DIRECTIVE"
    /\ \E name \in {curr(tokens, cursor).s}, c1 \in {next(tokens, cursor)} :
          CASE name \in {"byte", "BYTE", "db", "DB", "dword", "DWORD", "dw", "DW"} ->
                 /\ cursor' = c1
                 /\ pc' = "seq"
                 /\ seq' = <<>>
                 /\ seqSize' = IF name \in {"byte", "BYTE", "db", "DB"} THEN 8 ELSE 16
                 /\ UNCHANGED <<tokens, variables, prog, result, config, output>>
            [] name = "segment" ->
                 \E r \in {consume_string_and_lift(tokens, c1)} :
                    IF r.st # "ok" THEN Fail("err", r.cur, r.msg)
                    ELSE Push(SEGMENT(r.d), r.cur)
            [] name = "proc" ->
                 \E r \in {consume_literal_and_lift(tokens, c1)} :
                    IF r.st # "ok" THEN Fail("err", r.cur, r.msg)
                    ELSE Push(PROC(r.s), r.cur)
            [] name = "endproc" -> Push(ENDPROC, c1)
            [] name = "res" ->
                 IF curr(tokens, c1).k # "DEC"
                 THEN Fail("err", c1, ErrMsg("decimal number was expected",
                                             curr(tokens, c1).k, 0))
                 ELSE \E size \in {usize_from_str_radix(curr(tokens, c1).d)} :
                         IF size.st # "ok" THEN Fail("panic", c1, ErrMsg("unwrap", "", 0))
                         ELSE Push(RESERVE(size.digits), next(tokens, c1))
            [] OTHER -> Fail("err", cursor, ErrMsg("unexpected", "DIRECTIVE", 0))

\* One round of the loop of consume_sequence.
SeqItem ==
    /\ pc = "seq"
    /\ ~is_eof(tokens, cursor) /\ ~is_endline(tokens, cursor) /\ ~is_comment(tokens, cursor)
    /\ \E r \in {consume_sequence_item(tokens, cursor, variables, seq, seqSize)} :
          IF r.st # "ok" THEN Fail(r.st, r.cur, r.msg)
          ELSE /\ seq' = r.seq
               /\ cursor' = r.cur
               /\ UNCHANGED <<tokens, variables, prog, seqSize, pc, result, config, output>>

\* consume_sequence returns Ok(seq); the directive is pushed.
SeqEnd ==
    /\ pc = "seq"
    /\ is_eof(tokens, cursor) \/ is_endline(tokens, cursor) \/ is_comment(tokens, cursor)
    /\ prog' = Append(prog, IF seqSize = 8 THEN BYTE(seq) ELSE DWORD(seq))
    /\ seq' = <<>>
    /\ seqSize' = 0
    /\ pc' = "loop"
    /\ UNCHANGED <<tokens, cursor, variables, result, config, output>>

\* prog.push(self.state_instr()?); self.next();
StmtInstr ==
    /\ AtOther
    /\ curr(tokens, cursor).k # "DIRECTIVE"
    /\ \E r \in {state_instr(tokens, cursor, variables)} :
          IF r.st # "ok" THEN Fail(r.st, r.cur, r.msg)
          ELSE Push(r.stmt, next(tokens, r.cur))

\* The compiler turns a parsed program into its image.
Compile ==
    /\ pc = "done"
    /\ result.st = "ok"
    /\ \E image \in {to_byte_code(prog, config)} : output' = image
    /\ pc' = "compiled"
    /\ UNCHANGED <<tokens, cursor, variables, prog, seq, seqSize, result, config>>

Next ==
    \/ Finish
    \/ SkipBlank
    \/ StmtAssign
    \/ StmtLabel
    \/ StmtDirective
    \/ SeqItem
    \/ SeqEnd
    \/ StmtInstr
    \/ Compile

-----------------------------------------------------------------------------
(* The sources the repository's tests compile, as token sequences, with the *)
(* configuration and the image each test asserts.                           *)

simple_compilation_source ==
    <<NEWLINE,
      COMMENT, NEWLINE,
      LITERAL("ignored"), EQUAL, DEC(<<1>>), PLUS, BIN(<<1, 0, 1>>), MULT,
          PARENTOPEN, HEX(<<15, 15>>), MINUS, DEC(<<3>>), PARENTCLOSE, COMMENT, NEWLINE,
      DIRECTIVE("byte"), STR(<<72, 69, 76, 76, 79, 32, 87, 79, 82, 76, 68>>), NEWLINE,
      LITERAL("also_ignored"), COLON, COMMENT, NEWLINE,
      DIRECTIVE("dword"), STR(<<76, 76, 72, 72>>), COMMA, HEX(<<0, 0, 15, 15>>), NEWLINE,
      LITERAL("LDA"), PARENTOPEN, HEX(<<15, 15>>), PARENTCLOSE, COMMA, LITERAL("y"),
          COMMENT, NEWLINE,
      LITERAL("NOP"), NEWLINE,
      LITERAL("BNE"), LITERAL("also_ignored"), NEWLINE,
      EOF>>

simple_compilation_bytes ==
    <<72, 69, 76, 76, 79, 32, 87, 79, 82, 76, 68, 76, 76, 72, 72, 255, 0, 177, 255,
      234, 208, 10>>

compile_illegal_source ==
    <<NEWLINE,
      LITERAL("x"), EQUAL, BIN(<<0, 1, 0>>), NEWLINE,
      LITERAL("LAX"), HASH, HEX(<<10>>), COMMENT, NEWLINE,
      LITERAL("LDA"), PARENTOPEN, HEX(<<15, 0>>), PLUS, PARENTOPEN, LITERAL("x"), MULT,
          DEC(<<8>>), MINUS, HEX(<<1>>), PARENTCLOSE, PARENTCLOSE, COMMA, LITERAL("y"),
          COMMENT, NEWLINE,
      LITERAL("NOP"), COMMENT, NEWLINE,
      EOF>>

compile_illegal_config == [allow_illegal |-> TRUE, allow_list |-> {218}]

compile_illegal_bytes == <<171, 10, 177, 255, 218>>

mode_and_math_source ==
    <<NEWLINE,
      COMMENT, NEWLINE,
      LITERAL("ASL"), HEX(<<10, 10>>), PLUS, DEC(<<2>>), MULT, BIN(<<0, 1, 0>>), NEWLINE,
      NEWLINE,
      COMMENT, NEWLINE,
      LITERAL("ASL"), NEWLINE,
      NEWLINE,
      COMMENT, NEWLINE,
      LITERAL("ASL"), HEX(<<11, 11, 10, 10>>), PLUS, DEC(<<2>>), MULT, BIN(<<0, 1, 0>>),
          MINUS, BIN(<<1, 0, 0>>), NEWLINE,
      NEWLINE,
      COMMENT, NEWLINE,
      LITERAL("ASL"), HEX(<<10, 10>>), PLUS, DEC(<<2>>), MULT, BIN(<<0, 1, 0>>), COMMA,
          LITERAL("x"), NEWLINE,
      NEWLINE,
      COMMENT, NEWLINE,
      LITERAL("ASL"), HEX(<<0, 0, 10, 10>>), PLUS, DEC(<<2>>), MULT, BIN(<<0, 1, 0>>), COMMA,
          LITERAL("x"), NEWLINE,
      EOF>>

mode_and_math_bytes == <<6, 174, 10, 14, 170, 187, 22, 174, 30, 174, 0>>

\* The configuration main() builds.
main_config == [allow_illegal |-> FALSE, allow_list |-> {}]

\* Programs that use a label as the operand of a jump, declared before and
\* after it.
label_before_source ==
    <<LITERAL("loop"), COLON, NEWLINE, LITERAL("JMP"), LITERAL("loop"), NEWLINE, EOF>>
label_after_source ==
    <<LITERAL("JMP"), LITERAL("loop"), NEWLINE, LITERAL("loop"), COLON, NEWLINE, EOF>>

\* The directives that take no sequence.
directives_source ==
    <<DIRECTIVE("segment"), STR(<<67>>), NEWLINE,
      DIRECTIVE("proc"), LITERAL("main"), NEWLINE,
      DIRECTIVE("res"), DEC(<<0, 2>>), NEWLINE,
      DIRECTIVE("endproc"), NEWLINE, EOF>>

Corpus ==
    {simple_compilation_source, compile_illegal_source, mode_and_math_source,
     label_before_source, label_after_source, directives_source}

-----------------------------------------------------------------------------
(* Specifications *)

NoVariables == [n \in {} |-> NUM(NumericValue(0, 0))]

InitWith(inputs, configs) ==
    /\ tokens \in inputs
    /\ config \in configs
    /\ cursor = 0
    /\ variables = NoVariables
    /\ prog = <<>>
    /\ seq = <<>>
    /\ seqSize = 0
    /\ pc = "loop"
    /\ result = Returned("none", NoMsg)
    /\ output = [st |-> "none", bytes |-> <<>>, msg |-> NoMsg]

InitCorpus == InitWith(Corpus, {main_config, compile_illegal_config})
SpecCorpus == InitCorpus /\ [][Next]_vars

\* Sources whose numeric texts no u16 (or usize) holds, a CHAR without a
\* character, and a string whose UTF-8 length is even with an odd number of
\* chars.
AbortCorpus ==
    {<<LITERAL("LDA"), DEC(<<6, 5, 5, 3, 6>>), NEWLINE, EOF>>,
     <<LITERAL("LDA"), HASH, BIN(<<1, 1, 1, 1, 1, 1, 1, 1, 1, 1, 1, 1, 1, 1, 1, 1, 1>>), EOF>>,
     <<LITERAL("LDA"), HASH, CHAR(<<>>), EOF>>,
     <<DIRECTIVE("res"), DEC(<<1, 8, 4, 4, 6, 7, 4, 4, 0, 7, 3, 7, 0, 9, 5, 5, 1, 6, 1, 6>>), EOF>>,
     <<DIRECTIVE("dw"), STR(<<233>>), EOF>>}

\* Every sequence of at most n tokens of S.
SeqsUpTo(S, n) == UNION {[1..k -> S] : k \in 0..n}

MaxTokens == 3

Alphabet ==
    {LITERAL("LDA"), LITERAL("v"), EQUAL, COLON, COMMA, NEWLINE, PARENTOPEN,
     DIRECTIVE("dw"), HEX(<<15, 15>>), HEX(<<1, 0, 0, 0, 0>>)}

Init ==
    InitWith(SeqsUpTo(Alphabet, MaxTokens) \cup Corpus \cup AbortCorpus,
             {main_config, compile_illegal_config})

Spec == Init /\ [][Next]_vars

-----------------------------------------------------------------------------
(* The images the tests assert *)

HasAssertedImage(toks, cfg) ==
    \/ toks = simple_compilation_source
    \/ toks = mode_and_math_source
    \/ toks = compile_illegal_source /\ cfg = compile_illegal_config

AssertedImage(toks) ==
    CASE toks = simple_compilation_source -> simple_compilation_bytes
      [] toks = mode_and_math_source -> mode_and_math_bytes
      [] OTHER -> compile_illegal_bytes

Parsed == pc \in {"done", "compiled"} /\ result.st = "ok"

-----------------------------------------------------------------------------
(* Claims *)

\* C3: a label name is accepted as the operand of a non-branch instruction,
\* declared before or after it: parse() returns Ok and the instruction keeps
\* the label as its operand.
C3_LabelOperandAccepted ==
    (tokens \in {label_before_source, label_after_source} /\ pc \in {"done", "compiled"})
        => /\ result.st = "ok"
           /\ \E i \in 1..Len(prog) :
                  prog[i].e = "INSTR" /\ prog[i].instr = "JMP" /\ prog[i].op = OLABEL("loop")

\* C4: in the image emitted for a program, the operand byte of a branch to a
\* label is target - (address of the branch + 2) as a signed byte, the target
\* being the label's pass-1 address.
C4_BranchOperandIsRelativeOffset ==
    (Parsed /\ HasAssertedImage(tokens, config)) =>
        \A i \in 1..Len(prog) :
            (prog[i].e = "INSTR" /\ prog[i].mode = "REL" /\ prog[i].op.o = "LABEL")
                => AssertedImage(tokens)[AddressOf(prog, i) + 2]
                       = RelativeOffset(LabelAddress(prog, prog[i].op.name), AddressOf(prog, i), 2)

\* C5: an instruction whose opcode is unofficial is in the emitted image only
\* when allow_illegal is set and the opcode byte is on allow_list.
C5_UnofficialOnlyWhenAllowed ==
    (Parsed /\ HasAssertedImage(tokens, config)) =>
        \A i \in 1..Len(prog) :
            (/\ prog[i].e = "INSTR"
             /\ ~OpcodeTable(prog[i].instr, prog[i].mode).official
             /\ AssertedImage(tokens)[AddressOf(prog, i) + 1]
                    = OpcodeTable(prog[i].instr, prog[i].mode).opcode)
                => /\ config.allow_illegal
                   /\ OpcodeTable(prog[i].instr, prog[i].mode).opcode \in config.allow_list

\* C6: parse() returns Ok or Err on every token sequence; it never aborts.
C6_ParseNeverAborts == result.st # "panic"

-----------------------------------------------------------------------------
(* The arithmetic grammar read off the token text, without a cursor: an     *)
(* expression is split at its first '+' or '-' outside parentheses, a term  *)
(* at its first '*' or '/', and the right part is read the same way, so     *)
(* every level groups to the right.  Values are integers of 0..65535 and an *)
(* operation that leaves the range fails.                                   *)

RECURSIVE DepthAt(_, _)
\* The number of parentheses open before position i.
DepthAt(toks, i) ==
    IF i <= 1 THEN 0
    ELSE DepthAt(toks, i - 1)
            + (IF toks[i - 1] = PARENTOPEN THEN 1 ELSE IF toks[i - 1] = PARENTCLOSE THEN -1 ELSE 0)

Balanced(toks) ==
    /\ \A i \in 1..(Len(toks) + 1) : DepthAt(toks, i) >= 0
    /\ DepthAt(toks, Len(toks) + 1) = 0

\* The first position outside parentheses that holds one of ops, or 0.
FirstTop(toks, ops) ==
    LET at == {i \in 1..Len(toks) : toks[i] \in ops /\ DepthAt(toks, i) = 0}
    IN  IF at = {} THEN 0 ELSE CHOOSE i \in at : \A j \in at : i <= j

RefOk(v) == [st |-> "ok", value |-> v]
RefFail == [st |-> "fail", value |-> 0]
RefSyntax == [st |-> "syntax", value |-> 0]

\* left op right in 0..65535: a failure of the left part comes first, then
\* one of the right part, then the operation's own.
RefApply(op, left, right) ==
    IF left.st = "syntax" \/ right.st = "syntax" THEN RefSyntax
    ELSE IF left.st = "fail" \/ right.st = "fail" THEN RefFail
    ELSE CASE op = PLUS ->
                IF left.value > U16Max - right.value THEN RefFail
                ELSE RefOk(left.value + right.value)
           [] op = MINUS ->
                IF left.value < right.value THEN RefFail
                ELSE RefOk(left.value - right.value)
           [] op = MULT ->
                IF right.value # 0 /\ left.value > U16Max \div right.value THEN RefFail
                ELSE RefOk(left.value * right.value)
           [] OTHER ->
                IF right.value = 0 THEN RefFail
                ELSE RefOk(left.value \div right.value)

\* The value of one operand token: a numeric literal, or a bound name.
RefLeaf(tok, table) ==
    IF tok.k \in {"HEX", "DEC", "BIN", "CHAR"}
    THEN (IF canonicalize_number(tok).st = "ok"
          THEN RefOk(canonicalize_number(tok).num.value) ELSE RefSyntax)
    ELSE IF tok.k = "LITERAL"
    THEN (IF tok.s \in DOMAIN table /\ eval_math(table, table[tok.s]).st = "ok"
          THEN RefOk(eval_math(table, table[tok.s]).num.value) ELSE RefFail)
    ELSE RefSyntax

RECURSIVE RefExpr(_, _)
RECURSIVE RefTerm(_, _)
RECURSIVE RefFactor(_, _)

RefFactor(toks, table) ==
    IF Len(toks) = 1 THEN RefLeaf(toks[1], table)
    ELSE IF Len(toks) >= 3 /\ toks[1] = PARENTOPEN /\ toks[Len(toks)] = PARENTCLOSE
            /\ Balanced(SubSeq(toks, 2, Len(toks) - 1))
    THEN RefExpr(SubSeq(toks, 2, Len(toks) - 1), table)
    ELSE RefSyntax

RefTerm(toks, table) ==
    LET i == FirstTop(toks, {MULT, DIV})
    IN  IF i = 0 THEN RefFactor(toks, table)
        ELSE RefApply(toks[i], RefFactor(SubSeq(toks, 1, i - 1), table),
                      RefTerm(SubSeq(toks, i + 1, Len(toks)), table))

RefExpr(toks, table) ==
    IF toks = <<>> \/ ~Balanced(toks) THEN RefSyntax
    ELSE LET i == FirstTop(toks, {PLUS, MINUS})
         IN  IF i = 0 THEN RefTerm(toks, table)
             ELSE RefApply(toks[i], RefTerm(SubSeq(toks, 1, i - 1), table),
                           RefExpr(SubSeq(toks, i + 1, Len(toks)), table))

\* The size of one operand token, and the largest among a text's operands.
LeafSize(tok, table) ==
    IF tok.k \in {"HEX", "DEC", "BIN", "CHAR"} THEN canonicalize_number(tok).num.size
    ELSE IF tok.k = "LITERAL" /\ tok.s \in DOMAIN table
    THEN eval_math(table, table[tok.s]).num.size
    ELSE 0

RECURSIVE MaxLeafSize(_, _)
MaxLeafSize(toks, table) ==
    IF toks = <<>> THEN 0
    ELSE Max(LeafSize(Head(toks), table), MaxLeafSize(Tail(toks), table))

-----------------------------------------------------------------------------
(* Inputs: arithmetic expressions of a given number of operands *)

Operators == {PLUS, MINUS, MULT, DIV}

RECURSIVE FlatExprs(_, _)
RECURSIVE AtomExprs(_, _)
RECURSIVE Exprs(_, _)

\* atom op expr, or, with one operand, the operand.
FlatExprs(N, n) ==
    IF n = 1 THEN {<<x>> : x \in N}
    ELSE UNION {{a \o <<op>> \o e : a \in AtomExprs(N, i), op \in Operators, e \in Exprs(N, n - i)}
                  : i \in 1..(n - 1)}

\* An operand, or a parenthesized expression of several.
AtomExprs(N, n) ==
    IF n = 1 THEN {<<x>> : x \in N}
    ELSE {<<PARENTOPEN>> \o f \o <<PARENTCLOSE>> : f \in FlatExprs(N, n)}

Exprs(N, n) == FlatExprs(N, n) \cup (IF n > 1 THEN AtomExprs(N, n) ELSE {})

ExprsUpTo(N, n) == UNION {Exprs(N, k) : k \in 1..n}

-----------------------------------------------------------------------------
(* Instructions with one operand: v = 2, then `mnemonic operand` where the  *)
(* operand is an expression, bare or behind '(', followed by nothing, by    *)
(* an index suffix or by a closing parenthesis.                             *)

MaxOperandLeaves == 2

OperandNumbers == {HEX(<<15, 15>>), HEX(<<0, 1, 0, 0>>), LITERAL("v")}

OperandPrelude == <<LITERAL("v"), EQUAL, DEC(<<2>>), NEWLINE>>

OperandSuffixes ==
    {<<>>, <<PARENTCLOSE>>, <<COMMA, LITERAL("x")>>, <<COMMA, LITERAL("y")>>,
     <<PARENTCLOSE, COMMA, LITERAL("y")>>, <<COMMA, LITERAL("x"), PARENTCLOSE>>}

OperandInputs ==
    {OperandPrelude \o <<LITERAL(m)>> \o pre \o e \o suf \o <<NEWLINE>> :
        m \in {"LDA", "JMP"}, pre \in {<<>>, <<PARENTOPEN>>},
        e \in ExprsUpTo(OperandNumbers, MaxOperandLeaves), suf \in OperandSuffixes}

InitOperand == InitWith(OperandInputs \cup Corpus, {main_config})
SpecOperand == InitOperand /\ [][Next]_vars

Returned_ == pc \in {"done", "compiled"}

IsOperandProgram(toks) ==
    /\ Len(toks) >= 7
    /\ SubSeq(toks, 1, 4) = OperandPrelude
    /\ toks[5].k = "LITERAL" /\ toks[5].s \in Mnemonics /\ ~is_branching(toks[5].s)
    /\ toks[Len(toks)] = NEWLINE
    /\ \A i \in 6..(Len(toks) - 1) : toks[i] \notin {NEWLINE, COMMENT, EOF}

\* The operand's tokens, its ",x" / ",y" suffix and what precedes the suffix.
OperandOf(toks) == SubSeq(toks, 6, Len(toks) - 1)
SuffixOf(ot) ==
    IF Len(ot) >= 3 /\ ot[Len(ot) - 1] = COMMA /\ ot[Len(ot)] \in {LITERAL("x"), LITERAL("y")}
    THEN ot[Len(ot)].s ELSE ""
BodyOf(ot) == IF SuffixOf(ot) = "" THEN ot ELSE SubSeq(ot, 1, Len(ot) - 2)

ZeroPageModes == {"ZP", "ZPX", "ZPY"}
AbsoluteModes == {"ABS", "ABSX", "ABSY"}

ModeFor(size, suffix) ==
    CASE size = 8 /\ suffix = "" -> "ZP"
      [] size = 8 /\ suffix = "x" -> "ZPX"
      [] size = 8 /\ suffix = "y" -> "ZPY"
      [] size = 16 /\ suffix = "" -> "ABS"
      [] size = 16 /\ suffix = "x" -> "ABSX"
      [] size = 16 /\ suffix = "y" -> "ABSY"
      [] OTHER -> "?"

\* C1: for a non-branch mnemonic and an operand that does not start with '#'
\* or '(', the mode follows the size of the operand's value alone: size 8
\* gives ZP / ZPX / ZPY and size 16 gives ABS / ABSX / ABSY by the suffix, and
\* no instruction of a parsed program has a zero-page mode with a 16-bit
\* operand or an absolute mode with an 8-bit one.
C1_ModeBySize ==
    /\ \A i \in 1..Len(prog) :
          prog[i].e = "INSTR" =>
              /\ prog[i].mode \in ZeroPageModes => prog[i].op.num.size = 8
              /\ prog[i].mode \in AbsoluteModes => prog[i].op.num.size = 16
    /\ (Returned_ /\ IsOperandProgram(tokens)) =>
          LET ot == OperandOf(tokens)
              body == BodyOf(ot)
              ref == RefExpr(body, variables)
          IN  (ot[1] \notin {HASH, PARENTOPEN} /\ ref.st = "ok") =>
                  /\ result.st = "ok"
                  /\ prog[2] = INSTR(tokens[5].s,
                                     ModeFor(MaxLeafSize(body, variables), SuffixOf(ot)),
                                     VALUE(NumericValue(ref.value, MaxLeafSize(body, variables))))

C1_Witness ==
    /\ Parsed /\ IsOperandProgram(tokens)
    /\ Len(OperandOf(tokens)) = 5
    /\ prog[2].mode = "ABSY"
    /\ prog[2].op.num.value = 258

\* The operand "(E)" with nothing after it, E a well-formed expression.
IsParenthesized(ot, table) ==
    /\ Len(ot) >= 3
    /\ ot[1] = PARENTOPEN /\ ot[Len(ot)] = PARENTCLOSE
    /\ RefExpr(SubSeq(ot, 2, Len(ot) - 1), table).st # "syntax"

\* C2 as stated: "(E)" without an indirect suffix parses to the mode and the
\* value of the operand "E".
C2_ParenthesizedSameAsPlain ==
    (Returned_ /\ IsOperandProgram(tokens) /\ IsParenthesized(OperandOf(tokens), variables)) =>
        LET ot == OperandOf(tokens)
            plain == state_instr(<<tokens[5]>> \o SubSeq(ot, 2, Len(ot) - 1) \o <<NEWLINE>>,
                                 0, variables)
        IN  IF plain.st = "ok" THEN result.st = "ok" /\ prog[2] = plain.stmt
            ELSE result.st = "err"

\* C2, amended: "(E)" without an indirect suffix never parses like "E": with a
\* 16-bit value it is the indirect mode IND with the value of E, and with an
\* 8-bit value, or when E does not evaluate, parsing fails.
C2_ParenthesizedIsIndirect ==
    (Returned_ /\ IsOperandProgram(tokens) /\ IsParenthesized(OperandOf(tokens), variables)) =>
        LET ot == OperandOf(tokens)
            inner == SubSeq(ot, 2, Len(ot) - 1)
            ref == RefExpr(inner, variables)
        IN  IF ref.st = "ok" /\ MaxLeafSize(inner, variables) = 16
            THEN result.st = "ok"
                 /\ prog[2] = INSTR(tokens[5].s, "IND", VALUE(NumericValue(ref.value, 16)))
            ELSE result.st = "err"

C2_Witness ==
    /\ Parsed /\ IsOperandProgram(tokens)
    /\ IsParenthesized(OperandOf(tokens), variables)
    /\ Len(OperandOf(tokens)) = 5
    /\ prog[2].mode = "IND"

\* Whether a value fits the size it declares: 8 bits hold at most 255.
Fits(n) == n.size = 8 => n.value <= 255

\* C14: every NumericValue of a successfully parsed program fits its declared
\* size: the operand of an instruction whose size is 8 (every zero-page,
\* indirect-X and indirect-Y operand) and every element of a BYTE sequence is
\* at most 255, also when the operand is a sum or a product of 8-bit literals.
C14_ValuesFitTheirSize ==
    Parsed =>
        \A i \in 1..Len(prog) :
            /\ (prog[i].e = "INSTR" /\ prog[i].op.o = "VALUE") => Fits(prog[i].op.num)
            /\ prog[i].e = "DIRECTIVE" => \A k \in 1..Len(prog[i].seq) : Fits(prog[i].seq[k])

-----------------------------------------------------------------------------
(* Immediate operands: `LDA #E` for every expression E of a few operands.   *)

MaxLeaves == 3

MathNumbers == {HEX(<<0, 2>>), HEX(<<15, 15, 15, 15>>)}

MathInputs ==
    {<<LITERAL("LDA"), HASH>> \o e \o <<NEWLINE>> : e \in ExprsUpTo(MathNumbers, MaxLeaves)}

InitMath == InitWith(MathInputs \cup Corpus, {main_config})
SpecMath == InitMath /\ [][Next]_vars

IsMathProgram(toks) ==
    /\ Len(toks) >= 4
    /\ toks[1] = LITERAL("LDA") /\ toks[2] = HASH /\ toks[Len(toks)] = NEWLINE
    /\ \A i \in 3..(Len(toks) - 1) : toks[i] \notin {NEWLINE, COMMENT, EOF}

\* C9: parsing then evaluating an expression is the evaluation that groups
\* to the right at each precedence level, over 0..65535 with every operation
\* checked: where it yields a value, so does the parser, with the size of the
\* largest operand; where an operation leaves the range, parsing fails.
C9_RightGroupedCheckedValue ==
    (Returned_ /\ IsMathProgram(tokens)) =>
        LET e == SubSeq(tokens, 3, Len(tokens) - 1)
            ref == RefExpr(e, variables)
        IN  CASE ref.st = "ok" ->
                   /\ result.st = "ok"
                   /\ prog = <<INSTR("LDA", "IMM",
                                     VALUE(NumericValue(ref.value, MaxLeafSize(e, variables))))>>
              [] ref.st = "fail" -> result.st = "err"
              [] OTHER -> TRUE

\* $ffff - $02 - $02 is $ffff - ($02 - $02).
C9_Witness ==
    /\ Parsed
    /\ tokens = <<LITERAL("LDA"), HASH, HEX(<<15, 15, 15, 15>>), MINUS, HEX(<<0, 2>>), MINUS,
                  HEX(<<0, 2>>), NEWLINE>>
    /\ prog = <<INSTR("LDA", "IMM", VALUE(NumericValue(65535, 16)))>>

-----------------------------------------------------------------------------
(* Assignments: a few statements `name = rhs` over two names.               *)

MaxAssigns == 3

AssignNames == {"v", "w"}

AssignRhs ==
    {<<DEC(<<2>>)>>, <<LITERAL("v")>>, <<LITERAL("w")>>, <<LITERAL("w"), PLUS, DEC(<<2>>)>>}

AssignStatements ==
    {<<LITERAL(n), EQUAL>> \o rhs \o <<NEWLINE>> : n \in AssignNames, rhs \in AssignRhs}

RECURSIVE Programs(_, _)
\* Every sequence of exactly n of the given statements.
Programs(S, n) ==
    IF n = 0 THEN {<<>>} ELSE {s \o p : s \in S, p \in Programs(S, n - 1)}

ProgramsUpTo(S, n) == UNION {Programs(S, k) : k \in 0..n}

InitAssign == InitWith(ProgramsUpTo(AssignStatements, MaxAssigns) \cup Corpus, {main_config})
SpecAssign == InitAssign /\ [][Next]_vars

\* The placeholders that occur in an expression itself.
RECURSIVE NamesOf(_)
NamesOf(expr) ==
    CASE expr.t = "BIN" -> NamesOf(expr.l) \cup NamesOf(expr.r)
      [] expr.t = "PLACEHOLDER" -> {expr.name}
      [] OTHER -> {}

\* The names reached from a set of names by following stored definitions.
RECURSIVE ReachFrom(_, _)
ReachFrom(S, table) ==
    LET more == S \cup UNION {NamesOf(table[n]) : n \in S \cap DOMAIN table}
    IN  IF more = S THEN S ELSE ReachFrom(more, table)

Reach(expr, table) == ReachFrom(NamesOf(expr), table)

\* A round of the statement loop that runs state_assign on `name = expr`.
AssignRound ==
    /\ AtStatement
    /\ peek_next(tokens, cursor) = EQUAL
    /\ curr(tokens, cursor).k = "LITERAL"
    /\ consume_math_expr(tokens, cursor + 2).st = "ok"

AssignedName == curr(tokens, cursor).s
AssignedExpr == consume_math_expr(tokens, cursor + 2).expr

Committed ==
    /\ prog' = Append(prog, ASSIGN(AssignedName, AssignedExpr))
    /\ AssignedName \in DOMAIN variables'
    /\ variables'[AssignedName] = AssignedExpr
    /\ \A n \in DOMAIN variables \ {AssignedName} :
           n \in DOMAIN variables' /\ variables'[n] = variables[n]

Rejected ==
    /\ result'.st = "err"
    /\ variables' = variables
    /\ prog' = prog

\* C7 as stated: the validator rejects `name = expr` only when expr itself
\* holds a placeholder equal to name; an expr whose names are bound and that
\* reaches name only through stored definitions is committed.
C7_OnlyDirectSelfReference ==
    [][AssignRound =>
          /\ result'.msg.kind = "recursive definition" => AssignedName \in NamesOf(AssignedExpr)
          /\ (AssignedName \notin NamesOf(AssignedExpr)
                 /\ NamesOf(AssignedExpr) \subseteq DOMAIN variables) => Committed]_vars

\* C7, amended: the validator follows stored definitions: `name = expr` is
\* rejected when name is reached from expr, in expr itself or through the
\* definitions of the variables it mentions, or when a reached name is
\* unbound; otherwise the assignment is committed.
C7_RejectsReachedSelfReference ==
    [][AssignRound =>
          /\ result'.msg.kind = "recursive definition"
                 => AssignedName \in Reach(AssignedExpr, variables)
          /\ IF AssignedName \in Reach(AssignedExpr, variables)
                \/ ~(Reach(AssignedExpr, variables) \subseteq DOMAIN variables)
             THEN Rejected
             ELSE Committed]_vars

\* v = w was rejected while w is bound to v: v is reached only through w.
C7_Witness ==
    /\ pc = "done"
    /\ result = Returned("err", ErrMsg("recursive definition", "v", 0))
    /\ cursor >= 3
    /\ tokens[cursor] = LITERAL("w") /\ tokens[cursor - 1] = EQUAL
    /\ tokens[cursor - 2] = LITERAL("v")
    /\ "w" \in DOMAIN variables /\ variables["w"] = PLACEHOLDER("v")

\* Every placeholder of a stored definition is itself bound.
Closed(table) == \A n \in DOMAIN table : NamesOf(table[n]) \subseteq DOMAIN table

\* No variable reaches itself by following stored definitions.
Acyclic(table) == \A n \in DOMAIN table : n \notin Reach(table[n], table)

\* Whether the recursion of eval_math and validate_factors on expr (into both
\* sides of an operation and into the stored definition of a bound name)
\* ends within `fuel` nested lookups of the table.
RECURSIVE Unfolds(_, _, _)
Unfolds(expr, table, fuel) ==
    CASE expr.t = "NUM" -> TRUE
      [] expr.t = "BIN" -> Unfolds(expr.l, table, fuel) /\ Unfolds(expr.r, table, fuel)
      [] OTHER ->
           IF expr.name \notin DOMAIN table THEN TRUE
           ELSE fuel > 0 /\ Unfolds(table[expr.name], table, fuel - 1)

\* The recursion started at any bound name nests at most one lookup per
\* variable of the table.
Terminating(table) ==
    \A n \in DOMAIN table : Unfolds(PLACEHOLDER(n), table, Cardinality(DOMAIN table))

\* C12: after any sequence of assignments, accepted or rejected, with
\* redefinitions, the variable table is closed (every placeholder of a stored
\* definition is bound) and acyclic (no variable reaches itself through
\* definitions); hence the recursion of eval_math and validate_factors over
\* the table ends; the table changes only when an assignment is committed,
\* and a rejected assignment leaves it as it was.
C12_TableClosedAndAcyclic ==
    /\ [](Closed(variables) /\ Acyclic(variables) /\ Terminating(variables))
    /\ [][variables' # variables => (AssignRound /\ Committed)]_vars
    /\ [][(AssignRound /\ result'.st = "err") => variables' = variables]_vars

\* Three accepted assignments, the third a redefinition of the first name,
\* with a definition that mentions the other variable.
C12_Witness ==
    /\ Parsed
    /\ Len(prog) = 3
    /\ \A i \in 1..3 : prog[i].e = "ASSIGN"
    /\ prog[1].name = prog[3].name /\ prog[1].expr # prog[3].expr
    /\ DOMAIN variables = {"v", "w"}
    /\ \E n \in DOMAIN variables : NamesOf(variables[n]) # {}

-----------------------------------------------------------------------------
(* Sequences: a byte or dw directive with a few comma-separated operands.   *)

MaxItems == 3

SeqItems ==
    {<<HEX(<<0, 2>>)>>, <<HEX(<<0, 1, 0, 0>>)>>, <<STR(<<65, 66>>)>>,
     <<HEX(<<15, 15>>), PLUS, HEX(<<0, 2>>)>>, <<HEX(<<0, 2>>), MINUS, HEX(<<15, 15>>)>>}

RECURSIVE CommaLists(_, _)
\* Every list of exactly n of the given operands, a comma between two.
CommaLists(S, n) ==
    IF n = 1 THEN S ELSE {s \o <<COMMA>> \o l : s \in S, l \in CommaLists(S, n - 1)}

SeqInputs ==
    {<<DIRECTIVE(d)>> \o l \o tail :
        d \in {"byte", "dw"},
        l \in UNION {CommaLists(SeqItems, n) : n \in 1..MaxItems},
        tail \in {<<NEWLINE>>, <<COMMA, NEWLINE>>}}

InitSeq == InitWith(SeqInputs \cup Corpus, {main_config})
SpecSeq == InitSeq /\ [][Next]_vars

IsSeqProgram(toks) ==
    /\ Len(toks) >= 3
    /\ toks[1] \in {DIRECTIVE("byte"), DIRECTIVE("dw")}
    /\ toks[Len(toks)] = NEWLINE
    /\ \A i \in 2..(Len(toks) - 1) : toks[i] \notin {NEWLINE, COMMENT, EOF}

WidthOf(tok) == IF tok = DIRECTIVE("byte") THEN 8 ELSE 16

\* The operands of a comma-separated list, in order.
RECURSIVE SplitAtCommas(_)
SplitAtCommas(toks) ==
    LET i == FirstTop(toks, {COMMA})
    IN  IF toks = <<>> THEN <<>>
        ELSE IF i = 0 THEN <<toks>>
        ELSE <<SubSeq(toks, 1, i - 1)>> \o SplitAtCommas(SubSeq(toks, i + 1, Len(toks)))

\* What a directive of the given width makes of its operands, read off the
\* text: a string gives its characters (two to a word for width 16); any
\* other operand is evaluated, fails when its size is above the width, at
\* the position it would have taken, and else is appended with the width as
\* its size and its value as it is.
RECURSIVE RefSequence(_, _, _)
RefSequence(items, width, acc) ==
    IF items = <<>> THEN [st |-> "ok", seq |-> acc, kind |-> "", pos |-> 0]
    ELSE LET item == Head(items)
             ref == RefExpr(item, NoVariables)
         IN  IF Len(item) = 1 /\ item[1].k = "STR"
             THEN (IF width = 8
                   THEN RefSequence(Tail(items), width,
                            acc \o [i \in 1..Len(item[1].d) |-> NumericValue(item[1].d[i], 8)])
                   ELSE RefSequence(Tail(items), width,
                            acc \o [i \in 1..(Len(item[1].d) \div 2) |->
                                      NumericValue(256 * item[1].d[2 * i - 1] + item[1].d[2 * i], 16)]))
             ELSE IF ref.st # "ok" THEN [st |-> "err", seq |-> acc, kind |-> "eval", pos |-> 0]
             ELSE IF MaxLeafSize(item, NoVariables) > width
             THEN [st |-> "err", seq |-> acc, kind |-> "value too wide", pos |-> Len(acc)]
             ELSE RefSequence(Tail(items), width, Append(acc, NumericValue(ref.value, width)))

SizesAre(sq, width) == \A i \in 1..Len(sq) : sq[i].size = width

\* C8: in a byte/db (width 8) or dword/dw (width 16) directive a non-string
\* operand wider than the width fails with the position of the value in the
\* sequence, and any other is appended with the width as its size and its
\* value unchanged; every element of a BYTE sequence has size 8 and every
\* element of a DWORD sequence has size 16.
C8_SequenceWidth ==
    /\ SizesAre(seq, seqSize)
    /\ \A i \in 1..Len(prog) :
          /\ (prog[i].e = "DIRECTIVE" /\ prog[i].d = "BYTE") => SizesAre(prog[i].seq, 8)
          /\ (prog[i].e = "DIRECTIVE" /\ prog[i].d = "DWORD") => SizesAre(prog[i].seq, 16)
    /\ (Returned_ /\ IsSeqProgram(tokens)) =>
          LET width == WidthOf(tokens[1])
              ref == RefSequence(SplitAtCommas(SubSeq(tokens, 2, Len(tokens) - 1)), width, <<>>)
          IN  CASE ref.st = "ok" ->
                     /\ result.st = "ok"
                     /\ prog = <<IF width = 8 THEN BYTE(ref.seq) ELSE DWORD(ref.seq)>>
                [] ref.kind = "value too wide" ->
                     result = Returned("err", ErrMsg("value too wide", "", ref.pos))
                [] OTHER -> result.st = "err"

\* .byte "AB", $ff + $02, $0100: the third operand is too wide, at position 3.
C8_Witness ==
    /\ pc = "done"
    /\ tokens[1] = DIRECTIVE("byte")
    /\ result = Returned("err", ErrMsg("value too wide", "", 3))
    /\ seq = <<NumericValue(65, 8), NumericValue(66, 8), NumericValue(257, 8)>>

-----------------------------------------------------------------------------
(* Progress.  parse() is one sequential call: a round that can run, runs.   *)
(* The inputs are the short token sequences, with and without EOF, and the  *)
(* short sources.                                                           *)

LiveAlphabet ==
    {LITERAL("LDA"), EQUAL, NEWLINE, COMMA, DIRECTIVE("dw"), HEX(<<15, 15>>), EOF}

LiveCorpus ==
    {label_before_source, label_after_source, directives_source} \cup AbortCorpus

InitLive == InitWith(SeqsUpTo(LiveAlphabet, MaxTokens) \cup LiveCorpus, {main_config})

LiveSpec == InitLive /\ [][Next]_vars /\ WF_vars(Next)

\* A round of the statement loop or of the loop of consume_sequence that
\* neither returns nor leaves its loop.
StaysInLoop == (pc = "loop" /\ pc' \in {"loop", "seq"}) \/ (pc = "seq" /\ pc' = "seq")

\* C10: during parse() the cursor never moves backwards and stays within
\* 0..len(tokens); every round of the statement loop and of the sequence loop
\* moves the cursor forward or returns; and parse() returns on every token
\* sequence, with or without an EOF token.
C10_CursorForwardAndTerminates ==
    /\ [](cursor \in 0..Len(tokens))
    /\ [][cursor' >= cursor]_vars
    /\ [][StaysInLoop => cursor' > cursor]_vars
    /\ <>(pc \in {"done", "compiled"})

\* parse() returned Ok at the end of a sequence without EOF after two rounds
\* of the sequence loop.
C10_Witness ==
    /\ Parsed
    /\ cursor = Len(tokens)
    /\ \A i \in 1..Len(tokens) : tokens[i] # EOF
    /\ \E i \in 1..Len(prog) : prog[i].e = "DIRECTIVE" /\ prog[i].d = "DWORD" /\ Len(prog[i].seq) = 2

-----------------------------------------------------------------------------
(* One line `LDA <tokens>` for every short run of operand tokens, well      *)
(* formed or not: parentheses, an operator, an 8-bit number, a comma, an    *)
(* index name and a second mnemonic.                                        *)

MaxOperandTokens == 5

SyntaxAlphabet ==
    {PARENTOPEN, PARENTCLOSE, PLUS, HEX(<<15, 15>>), COMMA, LITERAL("y"), LITERAL("LDA")}

SyntaxInputs ==
    {<<LITERAL("LDA")>> \o ot \o <<NEWLINE>> : ot \in SeqsUpTo(SyntaxAlphabet, MaxOperandTokens)}

InitSyntax == InitWith(SyntaxInputs \cup Corpus, {main_config})
SpecSyntax == InitSyntax /\ [][Next]_vars

\* A round of the statement loop that runs state_instr on a mnemonic that is
\* not a branch and has an operand.
InstrRound ==
    /\ AtOther
    /\ curr(tokens, cursor).k = "LITERAL"
    /\ get_instr(curr(tokens, cursor).s).st = "ok"
    /\ ~is_branching(get_instr(curr(tokens, cursor).s).instr)
    /\ curr(tokens, cursor + 1) \notin {NEWLINE, COMMENT, EOF}

\* Where the operand's arithmetic expression starts: behind the mnemonic, or
\* behind the '#' or the '(' that follows it.
OperandStart ==
    IF curr(tokens, cursor + 1) \in {HASH, PARENTOPEN} THEN cursor + 2 ELSE cursor + 1

\* The parse of the operand's arithmetic expression.
OperandParse == consume_math_expr(tokens, OperandStart)

\* C11: when the arithmetic expression of an instruction's operand has a
\* syntax error (a token that is no operand where one is expected, or a
\* missing closing parenthesis), parsing the instruction fails: the round
\* returns Err and pushes no instruction.
C11_SyntaxErrorFailsInstruction ==
    [][(InstrRound /\ OperandParse.st = "err")
          => (pc' = "done" /\ result'.st = "err" /\ prog' = prog)]_vars

\* A round of the statement loop that runs state_instr and pushes the
\* instruction it returned.
InstrPushed ==
    /\ AtOther
    /\ curr(tokens, cursor).k # "DIRECTIVE"
    /\ Len(prog') = Len(prog) + 1

\* The token under the cursor when state_instr has returned: the one the
\* self.next() of the statement loop passes over.
PassedOver == curr(tokens, state_instr(tokens, cursor, variables).cur)

\* C13: parse() discards no meaningful token: the token that the statement
\* loop passes over after an instruction is a NEWLINE, a COMMENT or the EOF,
\* or the operand of the branch just parsed; a token that follows a complete
\* operand on the same line (a second mnemonic, a stray ')') is not skipped.
C13_NoTokenSkipped ==
    [][InstrPushed =>
          \/ PassedOver \in {NEWLINE, COMMENT, EOF}
          \/ prog'[Len(prog')].mode = "REL"]_vars

=============================================================================
